---- MODULE Spec2Model ----
(***************************************************************************)
(* A model of the webswitch mesh client, ServiceMeshClient, of             *)
(* src/src/adapters/service-mesh/node.js.                                  *)
(*                                                                         *)
(* The client is a single-threaded event-driven object: every action below *)
(* is one run-to-completion callback (a public method called by the        *)
(* embedding code, a socket event listener, a timer callback, or the       *)
(* continuation of an async method after its await).                       *)
(* Time is counted in seconds; a timer fires when its remaining time is 0  *)
(* and time does not advance past a timer that is due.                     *)
(***************************************************************************)
EXTENDS Integers, Sequences, FiniteSets, TLC

(* ------------------------------ bounds -------------------------------- *)
\* sockets the client may construct in one behaviour
MaxSockets == 2
\* envelopes the embedding code hands to publish()/send() in one behaviour
MaxMsgs == 2
\* the same, in the behaviours of QueueSpec, where no time passes
MaxQueueMsgs == 4
\* frames a socket takes before it reports a non-zero bufferedAmount
MaxRoom == 2
\* this.sendQueueLimit, scaled down from the default of 20 (node.js:72);
\* any value above 2 keeps limit + 1 below 1.5 * limit, as 20 does
sendQueueLimit == 3
\* subscribers the embedding code registers in one behaviour
MaxListeners == 3
\* the largest number in a payload handed to the codec
MaxNum == 1
MaxSaveLen == 5        \* longest queue handed to the persistence path
\* run() calls on the thread pool in one behaviour
MaxJobs == 3
\* worker threads that run() calls start in one behaviour
MaxPoolThreads == 3
\* drain() calls in one behaviour, those of reload() included
MaxDrains == 2

(* ------------------------- program constants -------------------------- *)
\* heartbeatms = config.heartbeat || 10000, in seconds
heartbeatms == 10
\* setTimeout(() => this.connect(), 8000) of the close listener, in seconds
ReconnectDelay == 8
\* setTimeout(() => this.connect(), 5000) of heartbeat(), in seconds
TimeoutReconnectDelay == 5
\* setTimeout(() => this.sendQueuedMsgs(), 1000) of the open listener
FlushDelay == 1

TIMEOUTEVENT == "webswitchTimeout"
CONNECTERROR == "webswitchConnect"
WSOCKETERROR == "webswitchWsocket"

\* the close codes the close listener reconnects on
ReconnectCodes == {1006, 4040}
\* close codes the hub or the transport may deliver
CloseCodes == {1000, 1006, 4040}
\* the code the embedding code gives close(): a normal closure
UserCloseCode == 1000

\* thread-pool.js: const DEFAULT_THREADPOOL_SIZE = 1
DEFAULT_THREADPOOL_SIZE == 1
\* this.numThreads, as ThreadPoolFactory.createThreadPool sets it
numThreads == DEFAULT_THREADPOOL_SIZE

VARIABLES
  ws,            \* this.ws: 0 for null, else the index of a socket in socks
  socks,         \* every WebSocket constructed so far, in construction order
  url,           \* this.url
  options,       \* this.options
  pong,          \* this.pong
  reconnecting,  \* this.reconnecting
  timers,        \* outstanding setTimeout handles
  pending,       \* async calls suspended at an await
  sendQueue,     \* this.sendQueue
  file,          \* public/senderQueue.json, as the array it holds
  fileStat,      \* what the file system says of that file: ok, toolarge
                 \* (above 99999999 bytes), missing or corrupt (not JSON)
  proc,          \* the host process: running, hung or crashed
  nextMsg,       \* number of the next envelope the embedding code publishes
  info,          \* what the last step wrote with console.info, or the error
                 \* it logged with console.error; "" if nothing
  listeners,     \* the event name of every subscriber, in registration order
  called,        \* the subscribers the last step invoked, in call order
  payload,       \* a value handed to the codec
  coded,         \* encode(payload), once computed
  decoded,       \* decode(coded), once computed
  preload,       \* ThreadPool: options.preload
  closed,        \* ThreadPool: this.closed
  freeThreads,   \* ThreadPool: this.freeThreads, as indices into threads
  waitingJobs,   \* ThreadPool: this.waitingJobs, as indices into jobs
  threads,       \* every worker thread created so far, in creation order
  jobs,          \* every run() call so far, and how far its promise got
  drains,        \* every drain() call so far, and how far its promise got
  reloadSt,      \* how far the reload() under way has got
  killList       \* thread lists reload() has set a timer to stop

vars == << ws, socks, url, options, pong, reconnecting, timers, pending,
           sendQueue, file, fileStat, proc, nextMsg, info, listeners, called,
           payload, coded, decoded, preload, closed, freeThreads,
           waitingJobs, threads, jobs, drains, reloadSt, killList >>

codecVars == << payload, coded, decoded >>

poolVars == << preload, closed, freeThreads, waitingJobs, threads, jobs,
               drains, reloadSt, killList >>

\* the fields of the client and its environment that a callback can change
mgrVars == << ws, socks, url, options, pong, reconnecting, timers, pending,
              sendQueue, file, fileStat >>

(* ------------------------- values and the codec ----------------------- *)
\* A JavaScript value: t is its kind; s holds the characters of a string and
\* the spelling of a boolean, n a number, props the own properties of an
\* object in insertion order, text the characters a Buffer holds.
Value(t, s, n, props, text) ==
  [t |-> t, s |-> s, n |-> n, props |-> props, text |-> text]

Undefined == Value("undefined", "", 0, << >>, << >>)
Null      == Value("null", "", 0, << >>, << >>)
Sym       == Value("symbol", "", 0, << >>, << >>)
Bool(b)   == Value("boolean", IF b THEN "true" ELSE "false", 0, << >>, << >>)
Num(n)    == Value("number", "", n, << >>, << >>)
Str(s)    == Value("string", s, 0, << >>, << >>)
Obj(props) == Value("object", "", 0, props, << >>)
Prop(k, v) == [k |-> k, v |-> v]

\* what a throwing expression leaves in place of a value
Thrown == Value("throw", "", 0, << >>, << >>)

\* Buffer.from(text), and Buffer.from(buffer).toString() back
BufferFrom(text) == Value("buffer", "", 0, << >>, text)
BufferToString(buf) == buf.text

\* typeof v
typeOf(v) == IF v.t \in {"null", "buffer"} THEN "object" ELSE v.t

\* obj[key], for a value that is neither null nor undefined
Get(obj, key) ==
  LET hits == { i \in 1..Len(obj.props) : obj.props[i].k = key }
  IN  IF hits = {} THEN Undefined
      ELSE obj.props[CHOOSE i \in hits : \A j \in hits : j <= i].v

\* !v
Falsy(v) ==
  \/ v.t \in {"undefined", "null"}
  \/ v.t = "boolean" /\ v.s = "false"
  \/ v.t = "number" /\ v.n = 0
  \/ v.t = "string" /\ v.s = ""

\* JSON text, as its sequence of tokens
Tok(k, s, n) == [k |-> k, s |-> s, n |-> n]
Punct(c) == Tok(c, "", 0)

RECURSIVE stringify(_)
RECURSIVE stringifyProps(_, _)

\* the members of an object literal; JSON.stringify leaves out a property
\* whose value is undefined or a symbol
stringifyProps(props, first) ==
  IF props = << >> THEN << >>
  ELSE LET p == Head(props)
       IN  IF p.v.t \in {"undefined", "symbol"}
           THEN stringifyProps(Tail(props), first)
           ELSE (IF first THEN << >> ELSE << Punct(",") >>)
                \o << Tok("str", p.k, 0), Punct(":") >> \o stringify(p.v)
                \o stringifyProps(Tail(props), FALSE)

\* JSON.stringify(v) for a value that has a JSON text
stringify(v) ==
  CASE v.t = "null"    -> << Punct("null") >>
    [] v.t = "boolean" -> << Punct(v.s) >>
    [] v.t = "number"  -> << Tok("num", "", v.n) >>
    [] v.t = "string"  -> << Tok("str", v.s, 0) >>
    [] OTHER           -> << Punct("{") >> \o stringifyProps(v.props, TRUE)
                          \o << Punct("}") >>

RECURSIVE parseValue(_, _)
RECURSIVE parseMembers(_, _, _, _)

ParseFail == [ok |-> FALSE, v |-> Thrown, i |-> 0]

\* the members of an object literal from token i on, up to its "}"
parseMembers(text, i, acc, first) ==
  IF i > Len(text) THEN ParseFail
  ELSE IF first /\ text[i].k = "}" THEN [ok |-> TRUE, v |-> Obj(acc), i |-> i + 1]
  ELSE IF i + 1 > Len(text) \/ text[i].k # "str" \/ text[i + 1].k # ":"
  THEN ParseFail
  ELSE LET r == parseValue(text, i + 2)
       IN  IF ~r.ok \/ r.i > Len(text) THEN ParseFail
           ELSE LET more == Append(acc, Prop(text[i].s, r.v))
                IN  CASE text[r.i].k = "," -> parseMembers(text, r.i + 1, more, FALSE)
                      [] text[r.i].k = "}" -> [ok |-> TRUE, v |-> Obj(more), i |-> r.i + 1]
                      [] OTHER -> ParseFail

\* the JSON value that starts at token i, and the token after it
parseValue(text, i) ==
  IF i > Len(text) THEN ParseFail
  ELSE LET tok == text[i]
       IN  CASE tok.k = "null"  -> [ok |-> TRUE, v |-> Null, i |-> i + 1]
             [] tok.k = "true"  -> [ok |-> TRUE, v |-> Bool(TRUE), i |-> i + 1]
             [] tok.k = "false" -> [ok |-> TRUE, v |-> Bool(FALSE), i |-> i + 1]
             [] tok.k = "num"   -> [ok |-> TRUE, v |-> Num(tok.n), i |-> i + 1]
             [] tok.k = "str"   -> [ok |-> TRUE, v |-> Str(tok.s), i |-> i + 1]
             [] tok.k = "{"     -> parseMembers(text, i + 1, << >>, TRUE)
             [] OTHER           -> ParseFail

\* JSON.parse(text): a SyntaxError unless the text is exactly one JSON value
JSONparse(text) ==
  LET r == parseValue(text, 1)
  IN  IF r.ok /\ r.i = Len(text) + 1 THEN r.v ELSE Thrown

\* encode(msg): this.primitives.encode[typeof msg](msg).  console.log returns
\* undefined; a kind without an entry makes the call raise a TypeError.
encode(msg) ==
  CASE typeOf(msg) \in {"object", "string", "number"} -> BufferFrom(stringify(msg))
    [] typeOf(msg) \in {"symbol", "undefined"}        -> Undefined
    [] OTHER                                          -> Thrown

\* decode() taking its string branch for a Buffer: msg => msg
decodeUnparsed(msg) == msg

\* decode(msg): this.primitives.decode[typeof msg](msg).  Buffer.from raises
\* on null and on a plain object.
decode(msg) ==
  CASE msg.t = "buffer"                        -> JSONparse(BufferToString(msg))
    [] typeOf(msg) = "object"                  -> Thrown
    [] typeOf(msg) \in {"string", "number", "symbol"} -> msg
    [] typeOf(msg) = "undefined"               -> Undefined
    [] OTHER                                   -> Thrown

(* ----------------------------- envelopes ------------------------------ *)
\* an envelope the embedding code publishes
Envelope(n) == Obj(<< Prop("eventName", Str("event")), Prop("n", Num(n)) >>)

\* telemetry(): the record sent once per open
telemetry ==
  Obj(<< Prop("eventName", Str("telemetry")), Prop("role", Str("node")) >>)

\* the client state as one record, threaded through a callback's statements;
\* st is "ok" while the callback runs on, "throw" once it has raised, and
\* "hang" once it is in a loop or recursion that cannot end
Cur ==
  [ ws |-> ws, socks |-> socks, url |-> url, options |-> options,
    pong |-> pong, reconnecting |-> reconnecting, timers |-> timers,
    pending |-> pending, sendQueue |-> sendQueue, file |-> file,
    fileStat |-> fileStat,
    listeners |-> listeners, called |-> << >>,
    st |-> "ok", ret |-> "none", emitted |-> << >>, info |-> "" ]

Throw(m) == [m EXCEPT !.st = "throw"]

\* this.listeners(ev): the subscribers registered for ev, in registration order
Targets(m, ev) ==
  SelectSeq([i \in 1..Len(m.listeners) |-> i], LAMBDA i : m.listeners[i] = ev)

\* this.emit(ev, ...): the listeners of ev are called in registration order;
\* an 'error' event that has no listener is raised as an exception
Emit(m, ev) ==
  IF ev = "error" /\ Targets(m, ev) = << >> THEN Throw(m)
  ELSE [m EXCEPT !.emitted = Append(@, ev), !.called = @ \o Targets(m, ev)]

\* subscribe(eventName, callback): this.on(eventName, callback)
subscribe(m, eventName) == [m EXCEPT !.listeners = Append(@, eventName)]

\* new WebSocket(url, ...): readyState CONNECTING, nothing sent, no ping yet.
\* code is the code the client gave ws.close() while the socket was not yet
\* closed (0: none); pingAge is the age of the ping that is unanswered (-1:
\* none); room is the number of frames the transport takes before its
\* bufferedAmount is above 0.
NewSocket ==
  [ rs |-> "CONNECTING", lsn |-> TRUE, room |-> 0, wire |-> << >>,
    pingAge |-> -1, code |-> 0 ]

\* setTimeout(fn, delay)
Timer(kind, delay) == [kind |-> kind, rem |-> delay, cur |-> FALSE]

(* ------------------------- outbound: send path ------------------------ *)
\* the condition of send(): this.ws && readyState === OPEN && bufferedAmount < 1
Sendable(m) ==
  /\ m.ws # 0
  /\ m.socks[m.ws].rs = "OPEN"
  /\ m.socks[m.ws].room >= 1

\* this.ws.send(data): the frame goes out on the socket this.ws names
WsSend(m, data) ==
  [m EXCEPT !.socks[m.ws].wire = Append(@, data),
            !.socks[m.ws].room = @ - 1]

\* CircuitBreaker('webswitch', fn).invoke(msg): the Fault Interceptor hands
\* msg to the function it wraps, msg => this.ws.send(this.encode(msg))
BreakerInvoke(m, msg) == WsSend(m, encode(msg))

\* what a sendQueuedMsgs() activation starts from; the code is deterministic,
\* so an activation that starts from a state an enclosing activation or an
\* earlier turn of its loop started from repeats it without end
Key(m) == << m.sendQueue, m.ws, m.socks >>

RECURSIVE send(_, _, _)
RECURSIVE sendQueuedMsgs(_, _)

\* saveSendQueue(sender), with sender = queue => sendQueuedMsgs(queue).
\* Below 1.5 * limit the sender runs on the in-memory queue at once; from
\* 1.5 * limit on the method suspends at `await stat(file)` and the rest
\* runs as a later task.
saveSendQueue(m, seen) ==
  IF 2 * Len(m.sendQueue) < 3 * sendQueueLimit
  THEN sendQueuedMsgs(m, seen)
  ELSE [m EXCEPT !.pending = Append(@, [kind |-> "save", msg |-> 0])]

\* manageSendQueue(msg)
manageSendQueue(m, msg, seen) ==
  saveSendQueue([m EXCEPT !.sendQueue = Append(@, msg)], seen)

\* send(msg): true when the frame was handed to the transport, false when queued
send(m, msg, seen) ==
  IF Sendable(m)
  THEN [BreakerInvoke(m, msg) EXCEPT !.ret = TRUE]
  ELSE IF Len(m.sendQueue) < sendQueueLimit
  THEN [m EXCEPT !.sendQueue = Append(@, msg), !.ret = FALSE]
  ELSE LET r == manageSendQueue(m, msg, seen)
       IN  IF r.st = "ok" THEN [r EXCEPT !.ret = FALSE] ELSE r

\* sendQueuedMsgs() taking the oldest entry first: this.sendQueue.shift()
RECURSIVE sendQueuedMsgsShift(_, _)
sendQueuedMsgsShift(m, seen) ==
  IF Len(m.sendQueue) = 0 THEN m
  ELSE IF Key(m) \in seen THEN [m EXCEPT !.st = "hang"]
  ELSE LET after == send([m EXCEPT !.sendQueue = Tail(@)], Head(m.sendQueue),
                         seen \cup {Key(m)})
       IN  IF after.st # "ok" THEN after
           ELSE sendQueuedMsgsShift(after, seen \cup {Key(m)})

\* sendQueuedMsgs(): while (this.sendQueue.length > 0) this.send(this.sendQueue.pop())
sendQueuedMsgs(m, seen) ==
  IF Len(m.sendQueue) = 0 THEN m
  ELSE IF Key(m) \in seen THEN [m EXCEPT !.st = "hang"]
  ELSE LET n      == Len(m.sendQueue)
           popped == [m EXCEPT !.sendQueue = SubSeq(@, 1, n - 1)]
           after  == send(popped, m.sendQueue[n], seen \cup {Key(m)})
       IN  IF after.st # "ok" THEN after
           ELSE sendQueuedMsgs(after, seen \cup {Key(m)})

(* ---------------------- close() and the heartbeat --------------------- *)
\* a socket the client has closed and let go of: it has no listeners and
\* nothing refers to it, so only the code it closed with is kept
Released(code) ==
  [ rs |-> "CLOSED", lsn |-> FALSE, room |-> 0, wire |-> << >>,
    pingAge |-> -1, code |-> code ]

\* close(code, reason): this.ws.removeAllListeners(); this.ws.close(code,
\* reason); this.ws.terminate(); this.ws = null.  On this.ws === null the
\* first statement raises a TypeError.
close(m, code) ==
  IF m.ws = 0 THEN Throw(m)
  ELSE [m EXCEPT !.socks[m.ws] =
                    Released(IF @.rs = "CLOSED" THEN @.code ELSE code),
                 !.ws = 0]

\* this.timerId = setTimeout(...): the new handle replaces the stored one
SetHeartbeatTimer(m) ==
  [m EXCEPT !.timers =
     Append([i \in 1..Len(@) |-> [@[i] EXCEPT !.cur = FALSE]],
            [kind |-> "heartbeat", rem |-> heartbeatms, cur |-> TRUE])]

\* clearTimeout(this.timerId)
ClearHeartbeatTimer(m) ==
  [m EXCEPT !.timers = SelectSeq(@, LAMBDA t : ~t.cur)]

\* this.ws.ping(): raises on null and on a socket that is still CONNECTING;
\* on a socket that has closed the ping is dropped
Ping(m) ==
  IF m.ws = 0 THEN Throw(m)
  ELSE IF m.socks[m.ws].rs = "CONNECTING" THEN Throw(m)
  ELSE IF m.socks[m.ws].rs = "OPEN"
  THEN [m EXCEPT !.socks[m.ws].pingAge = 0]
  ELSE m

\* heartbeat()
heartbeat(m) ==
  IF m.pong
  THEN LET pinged == Ping([m EXCEPT !.pong = FALSE])
       IN  IF pinged.st # "ok" THEN pinged ELSE SetHeartbeatTimer(pinged)
  ELSE IF m.reconnecting THEN m
  ELSE LET shut == close([m EXCEPT !.reconnecting = TRUE], 4877)
       IN  IF shut.st # "ok" THEN shut
           ELSE Emit([shut EXCEPT !.timers =
                        Append(@, Timer("reconnect", TimeoutReconnectDelay))],
                     TIMEOUTEVENT)

(* ------------------------- the socket listeners ----------------------- *)
\* ws.on('open', ...)
OpenListener(m) ==
  LET sent == send([m EXCEPT !.reconnecting = FALSE], telemetry, {})
  IN  IF sent.st # "ok" THEN sent
      ELSE LET beat == heartbeat(sent)
           IN  IF beat.st # "ok" THEN beat
               ELSE [beat EXCEPT !.timers = Append(@, Timer("flush", FlushDelay))]

\* ws.on('close', (code, reason) => ...)
CloseListener(m, code) ==
  LET told == Emit(m, CONNECTERROR)
  IN  IF code \notin ReconnectCodes THEN told
      ELSE IF told.reconnecting THEN told
      ELSE LET shut ==
                 close(ClearHeartbeatTimer([told EXCEPT !.reconnecting = TRUE]),
                       code)
           IN  IF shut.st # "ok" THEN shut
               ELSE [shut EXCEPT !.timers =
                       Append(@, Timer("reconnect", ReconnectDelay))]

\* the key emit() is given for an eventName; a subscriber registers under a
\* string
EventKey(name) == IF name.t = "string" THEN name.s ELSE "(not a string)"

\* the message listener without its try/catch
MessageListenerUncaught(m, message) ==
  LET event == decode(message)
  IN  IF event.t = "throw" THEN Throw(m)
      ELSE IF event.t \in {"null", "undefined"} THEN Throw(m)
      ELSE LET name == Get(event, "eventName")
           IN  IF Falsy(name) THEN Emit(m, "missingEventName")
               ELSE LET told == Emit(m, EventKey(name))
                    IN  IF told.st # "ok" THEN told
                        ELSE [told EXCEPT !.called = @ \o Targets(told, "*")]

\* ws.on('message', message => ...): every exception is caught and logged,
\* be it the SyntaxError of JSON.parse, the TypeError of reading eventName
\* of null, or what emit('error') raises without a listener
MessageListener(m, message) ==
  LET event == decode(message)
  IN  IF event.t = "throw" THEN [m EXCEPT !.info = "SyntaxError"]
      ELSE IF event.t \in {"null", "undefined"}
      THEN [m EXCEPT !.info = "TypeError"]
      ELSE LET name == Get(event, "eventName")
           IN  IF Falsy(name) THEN Emit(m, "missingEventName")
               ELSE LET told == Emit(m, EventKey(name))
                    IN  IF told.st # "ok"
                        THEN [told EXCEPT !.st = "ok",
                                          !.info = "ERR_UNHANDLED_ERROR"]
                        ELSE [told EXCEPT !.called = @ \o Targets(told, "*")]

(* --------------------------- connect() -------------------------------- *)
\* connect() without its `if (this.ws) return`
ConnectBeginUnguarded(m, opts, cont) ==
  [m EXCEPT !.options = opts, !.pending = Append(@, cont)]

\* connect(options) up to its await: returns at once when this.ws is set,
\* else stores the options and suspends in resolveUrl()
ConnectBegin(m, opts, cont) ==
  IF m.ws # 0 THEN [m EXCEPT !.info = "conn already open"]
  ELSE [m EXCEPT !.options = opts, !.pending = Append(@, cont)]

\* connect() after `await this.resolveUrl()`: the socket is constructed and
\* stored in this.ws, whatever this.ws holds by now, and the listeners are
\* registered
ConnectEnd(m) ==
  [m EXCEPT !.url = "resolved",
            !.socks = Append(@, NewSocket),
            !.ws = Len(m.socks) + 1]

RemoveAt(seq, i) == SubSeq(seq, 1, i - 1) \o SubSeq(seq, i + 1, Len(seq))

\* connect() calls suspended in resolveUrl()
Resolving == { i \in 1..Len(pending) : pending[i].kind \in {"connect", "publish"} }

\* a continuation that runs as a microtask, before any event or timer
Microtask == \E i \in 1..Len(pending) : pending[i].kind = "micro"

\* the model constructs at most MaxSockets sockets: a connect() that would
\* need one more is not started
SocketLeft == Len(socks) + Cardinality(Resolving) < MaxSockets

(* ------------------------------ actions ------------------------------- *)
\* the outcome of a callback: the fields it left, and what became of the
\* process.  An error raised in a listener or a timer callback is uncaught
\* and ends the process; one raised in a method the embedding code called
\* goes to the caller.
Commit(m, callback) ==
  /\ ws' = m.ws
  /\ socks' = m.socks
  /\ url' = m.url
  /\ options' = m.options
  /\ pong' = m.pong
  /\ reconnecting' = m.reconnecting
  /\ timers' = m.timers
  /\ pending' = m.pending
  /\ sendQueue' = m.sendQueue
  /\ file' = m.file
  /\ fileStat' = m.fileStat
  /\ proc' = IF m.st = "hang" THEN "hung"
             ELSE IF m.st = "throw" /\ callback THEN "crashed"
             ELSE proc
  /\ info' = m.info
  /\ listeners' = m.listeners
  /\ called' = m.called
  /\ UNCHANGED << codecVars, poolVars >>

\* a value not yet computed
Unset == Value("unset", "", 0, << >>, << >>)

\* a worker thread: starting (created by waitOnThread(), not yet online),
\* idle, busy with a job, stopping (shutdown posted) or stopped; job is the
\* job posted to it, or the job whose run() awaits it coming online
Thread(st, job) == [st |-> st, job |-> job]

\* new ThreadPool({ numThreads, options }): no thread unless options.preload,
\* then addThreads() puts numThreads new threads in freeThreads
ThreadPool(pre) ==
  /\ preload = pre
  /\ closed = FALSE
  /\ threads = [i \in 1..(IF pre THEN numThreads ELSE 0) |-> Thread("idle", 0)]
  /\ freeThreads = [i \in 1..(IF pre THEN numThreads ELSE 0) |-> i]
  /\ waitingJobs = << >>
  /\ jobs = << >>
  /\ drains = << >>
  /\ reloadSt = "none"
  /\ killList = << >>

ManagerInit ==
  /\ ws = 0
  /\ socks = << >>
  /\ url = "configured"
  /\ options = "undefined"
  /\ pong = TRUE
  /\ reconnecting = FALSE
  /\ timers = << >>
  /\ pending = << >>
  /\ proc = "running"
  /\ info = ""
  /\ listeners = << >>
  /\ called = << >>

\* nothing queued, nothing published, an empty queue file
ClientInit ==
  /\ ManagerInit
  /\ sendQueue = << >>
  /\ file = << >>
  /\ fileStat = "ok"
  /\ nextMsg = 1

Init ==
  /\ ClientInit
  /\ payload = Unset
  /\ coded = Unset
  /\ decoded = Unset
  /\ ThreadPool(FALSE)

\* the embedding code calls connect(options)
ConnectCall(opts) ==
  /\ proc = "running"
  /\ ws = 0 => SocketLeft
  /\ Commit(ConnectBegin(Cur, opts, [kind |-> "connect", msg |-> 0]), FALSE)
  /\ UNCHANGED nextMsg

\* the embedding code calls publish(msg): `await this.connect()` suspends the
\* call, in resolveUrl() when there is no socket and for a microtask else
PublishCall(max) ==
  /\ proc = "running"
  /\ nextMsg <= max
  /\ ws = 0 => SocketLeft
  /\ LET m == ConnectBegin(Cur, "default", [kind |-> "publish", msg |-> nextMsg])
     IN  Commit(IF ws # 0
                THEN [m EXCEPT !.pending =
                        Append(@, [kind |-> "micro", msg |-> nextMsg])]
                ELSE m, FALSE)
  /\ nextMsg' = nextMsg + 1

\* resolveUrl() settles for a suspended connect(): the socket is constructed;
\* a publish() that awaited it goes on to send(msg)
ConnectResume(i) ==
  /\ proc = "running"
  /\ i \in Resolving
  /\ LET m == ConnectEnd([Cur EXCEPT !.pending = RemoveAt(@, i)])
     IN  IF pending[i].kind = "publish"
         THEN Commit(send(m, Envelope(pending[i].msg), {}), FALSE)
         ELSE Commit(m, FALSE)
  /\ UNCHANGED nextMsg

\* resolveUrl() fails for a suspended connect(): the Resolver's listen()
\* rejects, connect() rejects at its await, and a publish() that awaited it
\* rejects without reaching this.send(msg)
ResolveFail(i) ==
  /\ proc = "running"
  /\ i \in Resolving
  /\ Commit([Cur EXCEPT !.pending = RemoveAt(@, i)], FALSE)
  /\ UNCHANGED nextMsg

\* saveSendQueue() from the callback of stat(file) on: a missing file makes
\* stats.size raise inside that callback, outside every try; a file above
\* the size cap or one that is not JSON ends the method with a log line;
\* else the stored entries and this.sendQueue are concatenated, the sender
\* drains this.sendQueue and resolves with the array it was given, and that
\* array is written to the file
saveResumed(m) ==
  CASE m.fileStat = "missing" -> Throw(m)
    [] m.fileStat \in {"toolarge", "corrupt"} -> m
    [] OTHER ->
         LET concatQueue == m.file \o m.sendQueue
             drained == sendQueuedMsgs(m, {})
         IN  IF drained.st # "ok" THEN drained
             ELSE [drained EXCEPT !.file = concatQueue]

\* stat(file) calls back for a suspended saveSendQueue()
SaveResume(i) ==
  /\ proc = "running" /\ ~Microtask
  /\ i \in 1..Len(pending)
  /\ pending[i].kind = "save"
  /\ Commit(saveResumed([Cur EXCEPT !.pending = RemoveAt(@, i)]), TRUE)
  /\ UNCHANGED nextMsg

\* publish(msg) after an `await this.connect()` that found a socket
PublishResume(i) ==
  /\ proc = "running"
  /\ i \in 1..Len(pending)
  /\ pending[i].kind = "micro"
  /\ Commit(send([Cur EXCEPT !.pending = RemoveAt(@, i)],
                 Envelope(pending[i].msg), {}), FALSE)
  /\ UNCHANGED nextMsg

\* the embedding code calls send(msg)
SendCall(max) ==
  /\ proc = "running"
  /\ nextMsg <= max
  /\ Commit(send(Cur, Envelope(nextMsg), {}), FALSE)
  /\ nextMsg' = nextMsg + 1

\* the embedding code calls close(1000, reason)
CloseCall ==
  /\ proc = "running"
  /\ Commit(close(Cur, UserCloseCode), FALSE)
  /\ UNCHANGED nextMsg

\* the handshake of socket s completes: 'open'
SockOpen(s, room) ==
  /\ proc = "running" /\ ~Microtask
  /\ socks[s].rs = "CONNECTING" /\ socks[s].lsn
  /\ Commit(OpenListener([Cur EXCEPT !.socks[s].rs = "OPEN",
                                     !.socks[s].room = room]), TRUE)
  /\ UNCHANGED nextMsg

\* socket s closes with a code the transport or the hub gives: 'close'
SockClose(s, code) ==
  /\ proc = "running" /\ ~Microtask
  /\ socks[s].rs \in {"CONNECTING", "OPEN"} /\ socks[s].lsn
  /\ Commit(CloseListener([Cur EXCEPT !.socks[s].rs = "CLOSED",
                                      !.socks[s].room = 0,
                                      !.socks[s].pingAge = -1], code), TRUE)
  /\ UNCHANGED nextMsg

\* the hub answers the ping outstanding on socket s: 'pong'
SockPong(s) ==
  /\ proc = "running" /\ ~Microtask
  /\ socks[s].rs = "OPEN" /\ socks[s].lsn
  /\ socks[s].pingAge >= 0
  /\ Commit([Cur EXCEPT !.pong = TRUE, !.socks[s].pingAge = -1], TRUE)
  /\ UNCHANGED nextMsg

\* a frame from the hub arrives on socket s: 'message'
SockMessage(s, message) ==
  /\ proc = "running" /\ ~Microtask
  /\ socks[s].rs = "OPEN" /\ socks[s].lsn
  /\ Commit(MessageListener(Cur, message), TRUE)
  /\ UNCHANGED nextMsg

\* the embedding code calls subscribe(eventName, callback)
SubscribeCall(eventName) ==
  /\ proc = "running"
  /\ Len(listeners) < MaxListeners
  /\ Commit(subscribe(Cur, eventName), FALSE)
  /\ UNCHANGED nextMsg

\* the transport has written out what socket s had buffered
SockDrain(s, room) ==
  /\ proc = "running" /\ ~Microtask
  /\ socks[s].rs = "OPEN" /\ socks[s].room = 0
  /\ Commit([Cur EXCEPT !.socks[s].room = room], TRUE)
  /\ UNCHANGED nextMsg

Due(i, kind) ==
  /\ proc = "running" /\ ~Microtask
  /\ i \in 1..Len(timers)
  /\ timers[i].kind = kind
  /\ timers[i].rem = 0

\* the heartbeat timer fires: () => this.heartbeat()
HeartbeatFire(i) ==
  /\ Due(i, "heartbeat")
  /\ Commit(heartbeat([Cur EXCEPT !.timers = RemoveAt(@, i)]), TRUE)
  /\ UNCHANGED nextMsg

\* a reconnect timer fires: () => this.connect()
ReconnectFire(i) ==
  /\ Due(i, "reconnect")
  /\ ws = 0 => SocketLeft
  /\ Commit(ConnectBegin([Cur EXCEPT !.timers = RemoveAt(@, i)], "default",
                         [kind |-> "connect", msg |-> 0]), TRUE)
  /\ UNCHANGED nextMsg

\* the flush timer fires: () => this.sendQueuedMsgs()
FlushFire(i) ==
  /\ Due(i, "flush")
  /\ Commit(sendQueuedMsgs([Cur EXCEPT !.timers = RemoveAt(@, i)], {}), TRUE)
  /\ UNCHANGED nextMsg

\* a second passes: no timer is due, every timer and every outstanding ping
\* is a second older
Tick ==
  /\ proc = "running" /\ ~Microtask
  /\ \A i \in 1..Len(timers) : timers[i].rem > 0
  /\ \/ timers # << >>
     \/ \E s \in 1..Len(socks) : socks[s].pingAge \in 0..(heartbeatms - 1)
  /\ timers' = [i \in 1..Len(timers) |-> [timers[i] EXCEPT !.rem = @ - 1]]
  /\ socks' = [s \in 1..Len(socks) |->
                 IF socks[s].pingAge \in 0..(heartbeatms - 1)
                 THEN [socks[s] EXCEPT !.pingAge = @ + 1]
                 ELSE socks[s]]
  /\ info' = ""
  /\ called' = << >>
  /\ UNCHANGED << ws, url, options, pong, reconnecting, pending, sendQueue,
                  file, fileStat, proc, nextMsg, listeners, codecVars,
                  poolVars >>

\* the behaviours in time, with a Resolver that answers every query
Next ==
  \/ ConnectCall("user")
  \/ PublishCall(MaxMsgs)
  \/ SendCall(MaxMsgs)
  \/ CloseCall
  \/ \E i \in 1..Len(pending) : ConnectResume(i)
  \/ \E i \in 1..Len(pending) : PublishResume(i)
  \/ \E s \in 1..Len(socks), room \in 1..MaxRoom : SockOpen(s, room)
  \/ \E s \in 1..Len(socks), code \in CloseCodes : SockClose(s, code)
  \/ \E s \in 1..Len(socks) : SockPong(s)
  \/ \E s \in 1..Len(socks), room \in 1..MaxRoom : SockDrain(s, room)
  \/ \E i \in 1..Len(timers) : HeartbeatFire(i)
  \/ \E i \in 1..Len(timers) : ReconnectFire(i)
  \/ \E i \in 1..Len(timers) : FlushFire(i)
  \/ Tick

Spec == Init /\ [][Next]_vars

\* the behaviours in which no time passes: what the embedding code and the
\* sockets can do within one second, with room for more envelopes and a
\* Resolver that may fail
QueueNext ==
  \/ ConnectCall("user")
  \/ PublishCall(MaxQueueMsgs)
  \/ SendCall(MaxQueueMsgs)
  \/ CloseCall
  \/ \E i \in 1..Len(pending) : ConnectResume(i)
  \/ \E i \in 1..Len(pending) : ResolveFail(i)
  \/ \E i \in 1..Len(pending) : PublishResume(i)
  \/ \E s \in 1..Len(socks), room \in 1..MaxRoom : SockOpen(s, room)
  \/ \E s \in 1..Len(socks), code \in CloseCodes : SockClose(s, code)
  \/ \E s \in 1..Len(socks) : SockPong(s)
  \/ \E s \in 1..Len(socks), room \in 1..MaxRoom : SockDrain(s, room)

QueueSpec == Init /\ [][QueueNext]_vars

(* ------------------------ the persistence path ------------------------ *)
\* queue lengths from which one more send() on a link that is down takes
\* the persistence branch of saveSendQueue()
SaveLens ==
  { n \in sendQueueLimit..MaxSaveLen : 2 * (n + 1) >= 3 * sendQueueLimit }

\* a socket buffer that takes the Telemetry record and a whole queue
SaveRoom == MaxSaveLen + 3

\* send() alone never leaves that many entries in this.sendQueue of a running
\* process (C1), so the queue the method finds is given: a client that holds
\* no socket, envelopes 1..n in this.sendQueue, and a queue file in one of
\* the conditions the file system can present
SaveInit ==
  /\ ManagerInit
  /\ \E n \in SaveLens :
       /\ sendQueue = [i \in 1..n |-> Envelope(i)]
       /\ nextMsg = n + 1
  /\ fileStat \in {"ok", "toolarge", "missing", "corrupt"}
  /\ file \in {<< >>, << Envelope(0) >>}
  /\ fileStat \in {"missing", "corrupt"} => file = << >>
  /\ payload = Unset
  /\ coded = Unset
  /\ decoded = Unset
  /\ ThreadPool(FALSE)

SaveNext ==
  \/ SendCall(MaxSaveLen + 2)
  \/ \E i \in 1..Len(pending) : SaveResume(i)
  \/ ConnectCall("user")
  \/ \E i \in 1..Len(pending) : ConnectResume(i)
  \/ \E s \in 1..Len(socks), room \in {1, SaveRoom} : SockOpen(s, room)
  \/ \E s \in 1..Len(socks), room \in {1, SaveRoom} : SockDrain(s, room)

SaveSpec == SaveInit /\ [][SaveNext]_vars

(* ----------------------- inbound frames, subscribers ------------------ *)
\* the event names subscribers register under
EventNames == {"event", "*", "missingEventName", "error"}

\* frames the hub may deliver: envelopes, among them one named like an event
\* the manager emits itself, JSON values that are no envelope, and text that
\* is not JSON
Frames ==
  { encode(Envelope(1)),
    encode(Obj(<< Prop("eventName", Str("error")) >>)),
    encode(Obj(<< Prop("eventName", Str("*")) >>)),
    encode(Obj(<< Prop("eventName", Str(TIMEOUTEVENT)) >>)),
    encode(Obj(<< Prop("a", Num(1)) >>)),
    encode(Str("event")),
    encode(Null),
    BufferFrom(<< Punct("{") >>) }

\* the behaviours of subscribing, connecting and receiving; no time passes
\* and nothing is published
DispatchNext ==
  \/ \E name \in EventNames : SubscribeCall(name)
  \/ ConnectCall("user")
  \/ CloseCall
  \/ \E i \in 1..Len(pending) : ConnectResume(i)
  \/ \E s \in 1..Len(socks), room \in 1..MaxRoom : SockOpen(s, room)
  \/ \E s \in 1..Len(socks), code \in CloseCodes : SockClose(s, code)
  \/ \E s \in 1..Len(socks), f \in Frames : SockMessage(s, f)

DispatchSpec == Init /\ [][DispatchNext]_vars

(* ------------------------------ the codec ----------------------------- *)
Primitives ==
  { Null, Bool(TRUE), Bool(FALSE), Str(""), Str("event") }
    \cup { Num(n) : n \in 0..MaxNum }

KeySeqs ==
  { << >>, << "eventName" >>, << "n" >>, << "eventName", "n" >>,
    << "n", "eventName" >> }

\* the objects over these keys whose property values are drawn from vals
ObjectsOver(vals) ==
  UNION { { Obj([i \in 1..Len(ks) |-> Prop(ks[i], vs[i])]) :
              vs \in [1..Len(ks) -> vals] } : ks \in KeySeqs }

FlatObjects == ObjectsOver(Primitives)

NestedObjects ==
  { Obj(<< Prop("eventName", Str("event")), Prop("data", o) >>) :
      o \in FlatObjects }

\* values that have no JSON text, alone and as a property value
NotJson ==
  { Sym, Undefined,
    Obj(<< Prop("eventName", Str("event")), Prop("n", Undefined) >>),
    Obj(<< Prop("eventName", Str("event")), Prop("n", Sym) >>) }

Payloads == Primitives \cup FlatObjects \cup NestedObjects \cup NotJson

RECURSIVE JsonRepresentable(_)
JsonRepresentable(v) ==
  \/ v.t \in {"null", "boolean", "number", "string"}
  \/ /\ v.t = "object"
     /\ \A i, j \in 1..Len(v.props) : v.props[i].k = v.props[j].k => i = j
     /\ \A i \in 1..Len(v.props) : JsonRepresentable(v.props[i].v)

CodecInit ==
  /\ ClientInit
  /\ payload \in Payloads
  /\ coded = Unset
  /\ decoded = Unset
  /\ ThreadPool(FALSE)

\* encode(payload)
EncodeCall ==
  /\ coded = Unset
  /\ coded' = encode(payload)
  /\ UNCHANGED << mgrVars, proc, nextMsg, info, listeners, called, payload,
                  decoded, poolVars >>

\* decode() of what encode() returned
DecodeCall ==
  /\ coded \notin {Unset, Thrown}
  /\ decoded = Unset
  /\ decoded' = decode(coded)
  /\ UNCHANGED << mgrVars, proc, nextMsg, info, listeners, called, payload,
                  coded, poolVars >>

CodecNext == EncodeCall \/ DecodeCall

CodecSpec == CodecInit /\ [][CodecNext]_vars

(* --------------------------- the thread pool -------------------------- *)
\* what the pool's actions leave alone
clientVars == << mgrVars, proc, nextMsg, info, listeners, called, codecVars >>

\* how far a run() promise got: awaiting (a thread it started to come
\* online), waiting (its job is in waitingJobs), posted, resolved
Job(st) == [st |-> st]

\* a drain() promise: thrown ('close pool first'), resolved, pending or
\* rejected; timer is its 10 s timer, listening its once('noJobsRunning')
\* listener, reload says that reload() made the call
Drain(st, timer, listening, reload) ==
  [st |-> st, timer |-> timer, listening |-> listening, reload |-> reload]

\* noJobsRunning(): this.numThreads === this.freeThreads.length
noJobsRunning(free) == numThreads = Len(free)

\* noThreads(): availableThreads() < 1 && jobQueueDepth() < 1
noThreads == Len(freeThreads) < 1 /\ Len(waitingJobs) < 1

\* a then-callback of reload() is due: returned, when reload() found the
\* pool drained and has returned to its caller; then, when an event
\* resolved the drain and the callback runs before anything else
ThenDue == reloadSt \in {"returned", "then"}

\* run(jobName, jobData): a closed pool queues the job; an open pool with no
\* free thread and no waiting job starts a thread and waits for it to come
\* online; else the job goes to freeThreads.shift(), and is queued when that
\* gives undefined
run ==
  /\ reloadSt # "then"
  /\ Len(jobs) < MaxJobs
  /\ LET j == Len(jobs) + 1
     IN  IF closed \/ (~noThreads /\ freeThreads = << >>)
         THEN /\ jobs' = Append(jobs, Job("waiting"))
              /\ waitingJobs' = Append(waitingJobs, j)
              /\ UNCHANGED << threads, freeThreads >>
         ELSE IF noThreads
         THEN /\ Len(threads) < MaxPoolThreads
              /\ jobs' = Append(jobs, Job("awaiting"))
              /\ threads' = Append(threads, Thread("starting", j))
              /\ UNCHANGED << waitingJobs, freeThreads >>
         ELSE /\ jobs' = Append(jobs, Job("posted"))
              /\ threads' = [threads EXCEPT ![Head(freeThreads)] =
                               Thread("busy", j)]
              /\ freeThreads' = Tail(freeThreads)
              /\ UNCHANGED waitingJobs
  /\ UNCHANGED << preload, closed, drains, reloadSt, killList, clientVars >>

\* worker.once('online', () => cb(thread)): the run() that awaited the thread
\* goes on to postJob(), whatever this.closed is by now
ThreadOnline(t) ==
  /\ ~ThenDue
  /\ t \in 1..Len(threads)
  /\ threads[t].st = "starting"
  /\ threads' = [threads EXCEPT ![t].st = "busy"]
  /\ jobs' = [jobs EXCEPT ![threads[t].job].st = "posted"]
  /\ UNCHANGED << preload, closed, freeThreads, waitingJobs, drains, reloadSt,
                  killList, clientVars >>

\* this.emit('noJobsRunning'): every once-listener of a drain() clears its
\* timer and resolves its promise, which changes nothing once it is settled
emitNoJobsRunning(ds) ==
  [i \in 1..Len(ds) |->
     IF ds[i].listening
     THEN Drain(IF ds[i].st = "pending" THEN "resolved" ELSE ds[i].st,
                FALSE, FALSE, ds[i].reload)
     ELSE ds[i]]

\* the drain() of the reload() under way is pending
ReloadWaits(ds) ==
  \E i \in 1..Len(ds) : ds[i].reload /\ ds[i].st = "pending"

\* thread.worker.once('message', result => ...) of postJob(): the thread
\* takes the first waiting job, or pool.open() is called and the thread goes
\* back to freeThreads; then noJobsRunning is emitted if it holds, and the
\* promise of the job resolves
WorkerMessage(t) ==
  /\ ~ThenDue
  /\ t \in 1..Len(threads)
  /\ threads[t].st = "busy"
  /\ LET j    == threads[t].job
         free == IF waitingJobs # << >> THEN freeThreads
                 ELSE Append(freeThreads, t)
     IN  /\ IF waitingJobs # << >>
            THEN /\ threads' = [threads EXCEPT ![t].job = Head(waitingJobs)]
                 /\ jobs' = [jobs EXCEPT ![j].st = "resolved",
                                         ![Head(waitingJobs)].st = "posted"]
                 /\ waitingJobs' = Tail(waitingJobs)
                 /\ closed' = closed
            ELSE /\ threads' = [threads EXCEPT ![t] = Thread("idle", 0)]
                 /\ jobs' = [jobs EXCEPT ![j].st = "resolved"]
                 /\ waitingJobs' = waitingJobs
                 /\ closed' = FALSE
         /\ freeThreads' = free
         /\ IF noJobsRunning(free)
            THEN /\ drains' = emitNoJobsRunning(drains)
                 /\ reloadSt' = IF reloadSt = "draining" /\ ReloadWaits(drains)
                                THEN "then" ELSE reloadSt
            ELSE UNCHANGED << drains, reloadSt >>
  /\ UNCHANGED << preload, killList, clientVars >>

\* open(): this.closed = false
open ==
  /\ reloadSt # "then"
  /\ closed' = FALSE
  /\ UNCHANGED << preload, freeThreads, waitingJobs, threads, jobs, drains,
                  reloadSt, killList, clientVars >>

\* close() of the pool: this.closed = true
ThreadPoolClose ==
  /\ reloadSt # "then"
  /\ closed' = TRUE
  /\ UNCHANGED << preload, freeThreads, waitingJobs, threads, jobs, drains,
                  reloadSt, killList, clientVars >>

\* the promise drain() returns: rejected with 'close pool first' on an open
\* pool, resolved at once when noJobsRunning(), else pending with a 10 s
\* timer and a once-listener for noJobsRunning
drain(isClosed, reload) ==
  IF ~isClosed THEN Drain("thrown", FALSE, FALSE, reload)
  ELSE IF noJobsRunning(freeThreads) THEN Drain("resolved", FALSE, FALSE, reload)
  ELSE Drain("pending", TRUE, TRUE, reload)

\* the embedding code calls drain()
DrainCall ==
  /\ reloadSt # "then"
  /\ Len(drains) < MaxDrains
  /\ drains' = Append(drains, drain(closed, FALSE))
  /\ UNCHANGED << preload, closed, freeThreads, waitingJobs, threads, jobs,
                  reloadSt, killList, clientVars >>

\* setTimeout(reject, 10000) of drain() fires; the once-listener stays.  A
\* reload() whose drain is rejected logs the error and settles.
DrainTimeout(i) ==
  /\ ~ThenDue
  /\ i \in 1..Len(drains)
  /\ drains[i].timer
  /\ drains' = [drains EXCEPT ![i].timer = FALSE,
                              ![i].st = IF @ = "pending" THEN "rejected" ELSE @]
  /\ reloadSt' = IF drains[i].reload /\ drains[i].st = "pending"
                 THEN "failed" ELSE reloadSt
  /\ UNCHANGED << preload, closed, freeThreads, waitingJobs, threads, jobs,
                  killList, clientVars >>

\* reload(poolName) up to its return: pool.close().drain().then(...).catch(...)
reload ==
  /\ reloadSt \in {"none", "done", "failed"}
  /\ Len(drains) < MaxDrains
  /\ closed' = TRUE
  /\ drains' = Append(drains, drain(TRUE, TRUE))
  /\ reloadSt' = IF noJobsRunning(freeThreads) THEN "returned" ELSE "draining"
  /\ UNCHANGED << preload, freeThreads, waitingJobs, threads, jobs, killList,
                  clientVars >>

\* the then-callback of reload(): the free threads go to the kill list,
\* addThreads() makes numThreads new ones, the pool is opened and a 1 s timer
\* is set to stop the kill list
ReloadThen ==
  /\ ThenDue
  /\ killList' = Append(killList, freeThreads)
  /\ threads' = threads \o [i \in 1..numThreads |-> Thread("idle", 0)]
  /\ freeThreads' = [i \in 1..numThreads |-> Len(threads) + i]
  /\ closed' = FALSE
  /\ reloadSt' = "done"
  /\ UNCHANGED << preload, waitingJobs, jobs, drains, clientVars >>

\* the 1 s timer of reload() fires: thread.stop() posts shutdown to every
\* thread of the kill list
KillFire(k) ==
  /\ ~ThenDue
  /\ k \in 1..Len(killList)
  /\ threads' = [t \in 1..Len(threads) |->
                   IF \E i \in 1..Len(killList[k]) : killList[k][i] = t
                   THEN Thread("stopping", 0) ELSE threads[t]]
  /\ killList' = RemoveAt(killList, k)
  /\ UNCHANGED << preload, closed, freeThreads, waitingJobs, jobs, drains,
                  reloadSt, clientVars >>

\* worker.once('exit', ...) of kill(), or worker.terminate() 5 s after the
\* shutdown message: the thread is gone
ThreadExit(t) ==
  /\ ~ThenDue
  /\ t \in 1..Len(threads)
  /\ threads[t].st = "stopping"
  /\ threads' = [threads EXCEPT ![t].st = "stopped"]
  /\ UNCHANGED << preload, closed, freeThreads, waitingJobs, jobs, drains,
                  reloadSt, killList, clientVars >>

\* a pool as ThreadPoolFactory.getThreadPool(modelName, options) creates it
PoolInit ==
  /\ ClientInit
  /\ payload = Unset
  /\ coded = Unset
  /\ decoded = Unset
  /\ \E pre \in BOOLEAN : ThreadPool(pre)

\* the pool, its workers and its timers; no time is counted: a timer may fire
\* at any moment after it was set
PoolNext ==
  \/ run
  \/ open
  \/ ThreadPoolClose
  \/ DrainCall
  \/ reload
  \/ ReloadThen
  \/ \E t \in 1..Len(threads) : ThreadOnline(t)
  \/ \E t \in 1..Len(threads) : WorkerMessage(t)
  \/ \E i \in 1..Len(drains) : DrainTimeout(i)
  \/ \E k \in 1..Len(killList) : KillFire(k)
  \/ \E t \in 1..Len(threads) : ThreadExit(t)

PoolSpec == PoolInit /\ [][PoolNext]_vars

(* ------------------------------ claims -------------------------------- *)
Range(seq) == { seq[i] : i \in 1..Len(seq) }

\* the frames on the wire of every socket, as send() may change them
Wires(m) == [s \in 1..Len(m.socks) |-> m.socks[s].wire]

\* C1: in every reachable state a call of send(e) completes and returns
\* true or false.
C1_SendReturnsBoolean ==
  proc = "running" =>
    LET r == send(Cur, Envelope(nextMsg), {})
    IN  r.st = "ok" /\ r.ret \in BOOLEAN

\* C2: send(e) returns true, makes exactly one transmit call with encode(e)
\* and leaves the send queue unchanged exactly when a socket exists, is OPEN
\* and has no buffered bytes; in every other case it returns false, makes no
\* transmit call, and e is held in the send queue.
C2_SendTransmitsOrQueues ==
  proc = "running" =>
    LET e == Envelope(nextMsg)
        r == send(Cur, e, {})
    IN  IF ws # 0 /\ socks[ws].rs = "OPEN" /\ socks[ws].room >= 1
        THEN /\ r.st = "ok" /\ r.ret = TRUE
             /\ Wires(r) = [Wires(Cur) EXCEPT ![ws] = Append(@, encode(e))]
             /\ r.sendQueue = sendQueue
        ELSE /\ r.st = "ok" /\ r.ret = FALSE
             /\ Wires(r) = Wires(Cur)
             /\ e \in Range(r.sendQueue)

\* C3: the client never holds two sockets at once: it constructs no socket
\* while one it constructed earlier has not been closed and released.
C3_AtMostOneSocket ==
  Cardinality({ s \in 1..Len(socks) : socks[s].lsn }) <= 1

\* C4: connect() called while the client holds a socket returns without
\* constructing a socket or registering listeners and without changing url,
\* options, the reconnecting flag, the send queue or any timer.
C4_ConnectIdempotent ==
  [][ (ws # 0 /\ ConnectCall("user")) => UNCHANGED mgrVars ]_vars

\* connect() has been called on a client that held a socket, with a timer
\* outstanding and an envelope queued
C4_Witness ==
  /\ ws # 0
  /\ info = "conn already open"
  /\ options = "default"
  /\ timers # << >>
  /\ sendQueue # << >>

\* the reconnect attempts that are scheduled and have not fired
ReconnectTimers(t) == { i \in 1..Len(t) : t[i].kind = "reconnect" }

\* C5: a close event with code 1006 or 4040 on the socket the client holds,
\* received while reconnecting is false, sets reconnecting, releases the
\* socket and schedules exactly one connect() attempt, 8 s ahead; a further
\* such close event that arrives before that attempt has fired schedules no
\* additional attempt.
C5_OneReconnectPerClose ==
  [][ \A s \in 1..Len(socks), code \in ReconnectCodes :
        (ws = s /\ SockClose(s, code)) =>
          IF ReconnectTimers(timers) # {}
          THEN Cardinality(ReconnectTimers(timers')) =
                 Cardinality(ReconnectTimers(timers))
          ELSE ~reconnecting =>
                 /\ reconnecting'
                 /\ ws' = 0 /\ ~socks'[s].lsn
                 /\ Cardinality(ReconnectTimers(timers')) = 1
                 /\ \A i \in ReconnectTimers(timers') :
                      timers'[i].rem = ReconnectDelay ]_vars

\* C6: reconnection is live: once the link is lost and reconnecting is set,
\* the client comes back to Open with the flag cleared.  Only an open event
\* clears the flag, and only connect() produces a socket that can open; so
\* while the flag is set a connect() attempt must be under way: a reconnect
\* timer outstanding, a connect() resolving, or a socket still CONNECTING.
C6_ReconnectUnderWay ==
  (proc = "running" /\ reconnecting) =>
     \/ ReconnectTimers(timers) # {}
     \/ Resolving # {}
     \/ \E s \in 1..Len(socks) : socks[s].lsn /\ socks[s].rs = "CONNECTING"

\* C7: when the heartbeat timer fires and no pong was observed, the socket
\* is closed with code 4877, the timeout event is emitted and exactly one
\* connect() is scheduled 5 s ahead; when a pong was observed, a new ping is
\* sent and the wait of heartbeatms restarts.
C7_HeartbeatTimeout ==
  \A i \in 1..Len(timers) :
    Due(i, "heartbeat") =>
      LET m == [Cur EXCEPT !.timers = RemoveAt(@, i)]
          r == heartbeat(m)
          n == Len(r.timers)
      IN  /\ r.st = "ok"
          /\ ws # 0
          /\ n = Len(m.timers) + 1
          /\ IF pong
             THEN /\ r.ws = ws
                  /\ r.socks[ws].pingAge = 0
                  /\ r.timers[n].kind = "heartbeat"
                  /\ r.timers[n].rem = heartbeatms
             ELSE /\ r.ws = 0
                  /\ r.socks[ws].code = 4877
                  /\ r.emitted = << TIMEOUTEVENT >>
                  /\ r.timers[n] = Timer("reconnect", TimeoutReconnectDelay)

\* C8: on every open event of the socket the client holds the heartbeat
\* starts with a ping on that socket and a wait of heartbeatms; and no socket
\* is closed with code 4877 unless a ping sent on it has gone unanswered for
\* heartbeatms.
C8_HeartbeatStartsWithPing ==
  [][ /\ \A s \in 1..Len(socks), room \in 1..MaxRoom :
           (ws = s /\ SockOpen(s, room)) =>
              /\ ws' = s
              /\ socks'[s].rs = "OPEN"
              /\ socks'[s].pingAge = 0
              /\ \E i \in 1..Len(timers') :
                   timers'[i] = [kind |-> "heartbeat", rem |-> heartbeatms,
                                 cur |-> TRUE]
      /\ \A s \in 1..Len(socks) :
           (socks[s].code # 4877 /\ socks'[s].code = 4877) =>
              /\ socks[s].rs = "OPEN"
              /\ socks[s].pingAge >= heartbeatms ]_vars

\* C9: on every socket that has had its open event the first frame
\* transmitted is the Telemetry record, and exactly one Telemetry record is
\* transmitted on it.
C9_TelemetryFirst ==
  \A s \in 1..Len(socks) :
    socks[s].rs = "OPEN" =>
      LET wire == socks[s].wire
      IN  /\ wire # << >>
          /\ wire[1] = encode(telemetry)
          /\ Cardinality({ i \in 1..Len(wire) : wire[i] = encode(telemetry) }) = 1

\* C10: publishing more envelopes than sendQueueLimit while disconnected
\* loses none: while every socket is still dialling, once every publish()
\* and send() has completed, the in-memory queue and the persisted queue
\* file together hold as many envelopes as were published.
C10_NoEnvelopeLost ==
  ( /\ \A s \in 1..Len(socks) : socks[s].rs = "CONNECTING"
    /\ \A i \in 1..Len(pending) : pending[i].kind \notin {"publish", "micro"} )
  => /\ proc = "running"
     /\ Len(sendQueue) + Len(file) = nextMsg - 1

\* C11: the in-memory send queue is capped: in every reachable state it
\* holds at most sendQueueLimit entries.
C11_QueueCapped ==
  Len(sendQueue) <= sendQueueLimit

\* a frame can arrive: the client has its listeners on an OPEN socket
Receiving ==
  /\ proc = "running"
  /\ \E s \in 1..Len(socks) : socks[s].rs = "OPEN" /\ socks[s].lsn

\* the frame decodes to a value that has no eventName
LacksEventName(f) ==
  LET e == decode(f)
  IN  /\ e.t # "throw"
      /\ \/ e.t \in {"null", "undefined"}
         \/ Get(e, "eventName").t = "undefined"

\* C12: an inbound frame whose decoded value lacks eventName emits the
\* missingEventName diagnostic and reaches no subscriber of an event name or
\* of the wildcard: only listeners of the diagnostic itself are called.
C12_MissingEventName ==
  Receiving =>
    \A f \in Frames :
      LacksEventName(f) =>
        LET r == MessageListener(Cur, f)
        IN  /\ r.st = "ok"
            /\ r.emitted = << "missingEventName" >>
            /\ \A i \in Range(r.called) : listeners[i] = "missingEventName"

\* the frame decodes to a value that carries an eventName
CarriesEventName(f) ==
  LET e == decode(f)
  IN  /\ e.t \notin {"throw", "null", "undefined"}
      /\ ~Falsy(Get(e, "eventName"))

\* C13: an inbound frame carrying eventName n is dispatched, within the
\* message event, to every subscriber registered for exactly n, in
\* registration order, and then to every subscriber registered under '*',
\* in registration order, each of them once.
C13_DispatchInOrder ==
  Receiving =>
    \A f \in Frames :
      CarriesEventName(f) =>
        LET n == EventKey(Get(decode(f), "eventName"))
            r == MessageListener(Cur, f)
        IN  /\ r.st = "ok"
            /\ r.called = IF n = "*" THEN Targets(Cur, "*")
                          ELSE Targets(Cur, n) \o Targets(Cur, "*")

\* C14: codec round trip: for every JSON-representable envelope e,
\* decode(encode(e)) is deep-equal to e.
C14_CodecRoundTrip ==
  (payload.t = "object" /\ JsonRepresentable(payload) /\ decoded # Unset)
    => decoded = payload

\* a JSON-representable envelope with a nested object has gone through
\* encode() and decode()
C14_Witness ==
  /\ payload.t = "object" /\ JsonRepresentable(payload)
  /\ Get(payload, "eventName") = Str("event")
  /\ Get(payload, "data").t = "object"
  /\ Len(Get(payload, "data").props) = 2
  /\ coded.t = "buffer"
  /\ decoded # Unset

\* socket s has been closed and released by an explicit close()
UserClosed(s) == socks[s] = Released(UserCloseCode)

\* C15: an explicit close() while a socket is held removes the listeners of
\* that socket, terminates it and releases the reference; afterwards no
\* event of a released socket is handled; and when the socket of a later
\* connect() opens, with no other socket attached, the client is Open: it
\* holds that socket, OPEN, after the open event.
C15_CloseThenReconnect ==
  [][ /\ (ws # 0 /\ CloseCall) =>
           /\ ws' = 0
           /\ socks'[ws].rs = "CLOSED" /\ ~socks'[ws].lsn
      /\ \A s \in 1..Len(socks) :
           ~socks[s].lsn =>
              /\ \A room \in 1..MaxRoom : ~SockOpen(s, room)
              /\ \A code \in CloseCodes : ~SockClose(s, code)
              /\ \A f \in Frames : ~SockMessage(s, f)
              /\ ~SockPong(s)
      /\ \A s \in 1..Len(socks), room \in 1..MaxRoom :
           ( /\ ws = s /\ SockOpen(s, room)
             /\ \E t \in 1..Len(socks) : UserClosed(t)
             /\ \A t \in 1..Len(socks) : t # s => ~socks[t].lsn )
           => (ws' = s /\ socks'[s].rs = "OPEN") ]_vars

\* C16: publish(e) never drops e: when the connect() that publish(e) awaits
\* on a client without a socket settles, whether URL resolution succeeded
\* or failed, e has been transmitted or is in the send queue.
C16_PublishNeverDrops ==
  [][ \A i \in 1..Len(pending) :
        ( /\ pending[i].kind = "publish"
          /\ ConnectResume(i) \/ ResolveFail(i)
          /\ proc' = "running" )
        => LET e == Envelope(pending[i].msg)
           IN  \/ e \in Range(sendQueue')
               \/ \E s \in 1..Len(socks') : encode(e) \in Range(socks'[s].wire)
    ]_vars

\* C17: at most one reconnect timer is outstanding at any time.
C17_OneReconnectTimer ==
  Cardinality(ReconnectTimers(timers)) <= 1

\* the heartbeat timers that are scheduled and have not fired
HeartbeatTimers(t) == { i \in 1..Len(t) : t[i].kind = "heartbeat" }

\* C18: exactly one heartbeat probe is ever in flight: in every reachable
\* state at most one heartbeat timer is outstanding.
C18_OneHeartbeatTimer ==
  Cardinality(HeartbeatTimers(timers)) <= 1

\* C19: no timer callback and no socket callback of the client raises an
\* error that nothing handles: the host process is never brought down.
C19_NoCrash ==
  proc # "crashed"

\* the client is Open: it holds a socket that is OPEN
IsOpen == ws # 0 /\ socks[ws].rs = "OPEN"

\* C20: every transition that leaves Open, by an abnormal close (1006 or
\* 4040), a heartbeat timeout or an explicit close(), leaves no heartbeat
\* timer outstanding.
C20_LeavingOpenCancelsHeartbeat ==
  [][ ( /\ IsOpen
        /\ \/ CloseCall
           \/ \E code \in ReconnectCodes : SockClose(ws, code)
           \/ ~pong /\ \E i \in 1..Len(timers) : HeartbeatFire(i) )
      => HeartbeatTimers(timers') = {} ]_vars

\* the frames a step has added to the wire of socket s
Added(s) == SubSeq(socks'[s].wire, Len(socks[s].wire) + 1, Len(socks'[s].wire))

\* C21: the flush that runs 1 s after open takes the entries of the
\* in-memory queue most-recently-queued first and passes them to send() one
\* at a time: the frames it transmits are the queued envelopes in reverse
\* order of queuing, and it transmits on no socket but the one held.
C21_FlushIsLifo ==
  [][ \A i \in 1..Len(timers) :
        FlushFire(i) =>
          /\ ws' = ws
          /\ \A s \in 1..Len(socks) :
               /\ Len(socks'[s].wire) >= Len(socks[s].wire)
               /\ s # ws => Added(s) = << >>
               /\ s = ws =>
                    /\ Len(Added(s)) <= Len(sendQueue)
                    /\ \A j \in 1..Len(Added(s)) :
                         Added(s)[j] = encode(sendQueue[Len(sendQueue) + 1 - j])
    ]_vars

\* a flush has transmitted two envelopes, the one queued last first
C21_Witness ==
  /\ proc = "running"
  /\ sendQueue = << >>
  /\ \E s \in 1..Len(socks) :
       socks[s].wire = << encode(telemetry), encode(Envelope(2)),
                          encode(Envelope(1)) >>

\* the frames a step handed to ws.send, on whichever socket
Transmitted == UNION { Range(Added(s)) : s \in 1..Len(socks) }

\* the entries of q of which no frame went out in the step
Unsent(q) == SelectSeq(q, LAMBDA e : encode(e) \notin Transmitted)

Undecodable == { f \in Frames : decode(f).t = "throw" }

\* C24: a frame that cannot be decoded is skipped, and nothing else is: no
\* subscriber is invoked for it, the socket, the reconnecting flag, the send
\* queue and the timers are as they were, the process goes on, and with the
\* socket and the subscribers unchanged the next frame is dispatched as if
\* the bad frame had never arrived
C24_BadFrameSkipped ==
  [][ \A s \in 1..Len(socks) : \A f \in Undecodable :
        SockMessage(s, f) =>
          /\ called' = << >>
          /\ UNCHANGED mgrVars
          /\ listeners' = listeners
          /\ proc' = "running" ]_vars

\* an undecodable frame has arrived at a client with a wildcard subscriber
C24_Witness ==
  /\ info = "SyntaxError"
  /\ proc = "running"
  /\ called = << >>
  /\ \E i \in 1..Len(listeners) : listeners[i] = "*"
  /\ ws # 0 /\ socks[ws].rs = "OPEN"

\* C25: a symbol payload is not sent: send(msg) with a symbol msg on an open
\* socket with nothing buffered makes no transmit call on any socket
C25_SymbolNotSent ==
  (proc = "running" /\ Sendable(Cur)) =>
    Wires(send(Cur, Sym, {})) = Wires(Cur)

\* C26: sendQueuedMsgs() terminates: the flush the open listener scheduled
\* returns after finitely many pop/send steps, whatever the socket's state
\* is when the timer fires
C26_FlushTerminates ==
  [][ \A i \in 1..Len(timers) : FlushFire(i) => proc' # "hung" ]_vars

FlushTimers(t) == { i \in 1..Len(t) : t[i].kind = "flush" }

\* C27: an envelope held in the send queue is eventually transmitted once
\* the client is Open and stays unbackpressured; so whenever the client is
\* Open with nothing buffered and the queue is not empty, a drain of the
\* queue is still to come
C27_QueuedIsSentOnceOpen ==
  ( /\ proc = "running"
    /\ Sendable(Cur)
    /\ sendQueue # << >> ) => FlushTimers(timers) # {}

\* C28: whenever the client holds a socket, that socket is Connecting or
\* Open: a close event with any code releases the reference
C28_HeldSocketIsLive ==
  (proc = "running" /\ ws # 0) => socks[ws].rs \in {"CONNECTING", "OPEN"}

NoRepeat(seq) == \A i, j \in 1..Len(seq) : seq[i] = seq[j] => i = j

\* C29: every registered subscriber is invoked at most once for an inbound
\* frame, whatever eventName the frame carries
C29_SubscriberCalledOnce ==
  [][ \A s \in 1..Len(socks) : \A f \in Frames :
        SockMessage(s, f) => NoRepeat(called') ]_vars

\* the events breaker.detectErrors() listens for on the manager
FailureEvents == {TIMEOUTEVENT, CONNECTERROR, WSOCKETERROR}

\* C30: no inbound frame, whatever eventName it carries, makes the manager
\* emit one of the failure events the breaker observes
C30_FramesEmitNoFailure ==
  Receiving =>
    \A f \in Frames :
      Range(MessageListener(Cur, f).emitted) \cap FailureEvents = {}

\* C31: close() called while the manager holds no socket (before any
\* connect(), a second time, or during the reconnect wait) completes without
\* error and leaves the manager's state unchanged
C31_CloseWithoutSocket ==
  (proc = "running" /\ ws = 0) =>
    LET r == close(Cur, UserCloseCode)
    IN  /\ r.st = "ok"
        /\ [r EXCEPT !.st = "ok"] = Cur

\* a step posts a job to a worker
PostsJob ==
  \E j \in 1..Len(jobs') :
    /\ jobs'[j].st = "posted"
    /\ j \in 1..Len(jobs) => jobs[j].st # "posted"

\* C32: while the thread pool is closed no job is posted to a worker: run()
\* on a closed pool only queues, and neither a job finishing on a thread nor
\* a thread coming online starts a job before the pool is open again
C32_ClosedPoolPostsNothing ==
  [][ PostsJob => ~closed ]_vars

\* C33: the closed flag changes only through open() and close() calls: the
\* completion of a job on a worker leaves it as it was
C33_JobEndKeepsClosedFlag ==
  [][ \A t \in 1..Len(threads) : WorkerMessage(t) => closed' = closed ]_vars

\* a job is running on some thread
JobsRunning == \E t \in 1..Len(threads) : threads[t].st = "busy"

\* C34: drain() throws on an open pool; on a closed pool it resolves at once
\* if no job is running at the call, else when the last running job ends;
\* it rejects only if a job is still running when its 10 s are over
C34_DrainFollowsRunningJobs ==
  [][ /\ DrainCall =>
           LET d == drains'[Len(drains')]
           IN  /\ ~closed => d.st = "thrown"
               /\ (closed /\ ~JobsRunning) => d.st = "resolved"
               /\ (closed /\ JobsRunning) => d.st = "pending"
      /\ \A t \in 1..Len(threads) :
           (WorkerMessage(t) /\ ~JobsRunning') =>
             \A i \in 1..Len(drains') : drains'[i].st # "pending"
      /\ \A i \in 1..Len(drains) :
           (DrainTimeout(i) /\ drains'[i].st = "rejected") => JobsRunning
    ]_vars

\* the threads created and not stopped
LiveThreads == { t \in 1..Len(threads) : threads[t].st # "stopped" }

\* C35: whatever run() calls are made, the threads the pool has created and
\* not stopped are never more than numThreads (no reload() is involved)
C35_PoolSizeBounded ==
  reloadSt = "none" => Cardinality(LiveThreads) <= numThreads

\* C36: every job submitted with run() eventually runs, a job in waitingJobs
\* without a later run() call to trigger it; so whenever the pool is open
\* and a job is waiting, some thread is at work or starting, whose
\* completion will take the job up
C36_WaitingJobIsTakenUp ==
  (~closed /\ waitingJobs # << >>) =>
    \E t \in 1..Len(threads) : threads[t].st \in {"busy", "starting"}

\* C37: when reload() settles the pool is open again, whether the drain
\* succeeded or timed out; on success freeThreads holds numThreads threads
\* created by the reload and the previous free threads are on a kill timer
C37_ReloadReopens ==
  [][ (reloadSt' \in {"done", "failed"} /\ reloadSt' # reloadSt) =>
        /\ closed' = FALSE
        /\ reloadSt' = "done" =>
             /\ Len(freeThreads') = numThreads
             /\ \A i \in 1..Len(freeThreads') : freeThreads'[i] > Len(threads)
             /\ killList' # << >>
             /\ killList'[Len(killList')] = freeThreads ]_vars

====
